---------------------------- MODULE Spec2Model ----------------------------
(***************************************************************************)
(* bus1: the active-reference lifecycle gate (ipc/bus1/active.c) and the   *)
(* per-peer message queue (ipc/bus1/util/queue.h), as one state machine.   *)
(*                                                                         *)
(* Part I models one struct bus1_active shared by NThreads kernel threads. *)
(* Every atomic_t access of active.c is one step; wait_event(), wake_up()  *)
(* and wake_up_all() are modelled by the wait-queue list and the task      *)
(* state they manipulate, so that a lost wake-up would show.  The data     *)
(* commands of bus1_fop_ioctl() (ipc/bus1/main.c) run on the same counter. *)
(*                                                                         *)
(* Part II models the queues of two peers X and Y and NSenders sending     *)
(* peers, each running one message transaction.  The clock helpers, the    *)
(* node accessors and the comparator are those of util/queue.h; the queue  *)
(* operations that queue.h only declares (stage, commit_staged,            *)
(* commit_unstaged, remove, peek, flush) follow their description in the   *)
(* specification.  Every queue operation runs under the lock of its queue  *)
(* and is one step.                                                        *)
(***************************************************************************)
EXTENDS Integers, Sequences, FiniteSets, TLC

(***************************************************************************)
(* Bounds of the model.                                                    *)
(***************************************************************************)
NThreads == 2
MaxHeld == 1
NSenders == 2

Threads == 1 .. NThreads

(***************************************************************************)
(* active.c:39-44.  INT_MIN of a 32 bit int.                               *)
(***************************************************************************)
INT_MIN == (-2147483647) - 1
BUS1_ACTIVE_BIAS == INT_MIN + 5
BUS1_ACTIVE_RELEASE_DIRECT == BUS1_ACTIVE_BIAS - 1
BUS1_ACTIVE_RELEASE == BUS1_ACTIVE_BIAS - 2
BUS1_ACTIVE_DRAINED == BUS1_ACTIVE_BIAS - 3
BUS1_ACTIVE_NEW == BUS1_ACTIVE_BIAS - 4

VARIABLES
    count,          \* active->count
    pc,             \* pc[t]: where thread t stands
    v,              \* v[t]: the local "v" of deactivate / drain / add_unless_negative
    arg,            \* arg[t]: <<active != NULL, waitq != NULL, release != NULL>> of the call
    ret,            \* ret[t]: the value the call of t returns
    held,           \* held[t]: active references t acquired and has not released
    waiters,        \* tasks linked on the wait-queue
    sleeping,       \* sleeping[t]: task state is TASK_UNINTERRUPTIBLE
    wstage,         \* wstage[t]: position inside wait_event()
    relOwner,       \* history: the drain call that moved count to RELEASE
    toRelease,      \* history: number of transitions of count to RELEASE
    cbRuns,         \* history: number of invocations of the release callback
    cbSkipped,      \* history: the releasing drain call was given release == NULL
    drainTrue,      \* history: number of drain calls that returned true
    drainReturned,  \* history: a drain call on a deactivated object has returned
    deactReturned,  \* history: a deactivate call has returned
    clock,          \* clock[q]: queue->clock
    messages,       \* messages[q]: the nodes linked into queue->messages, in tree order
    front,          \* front[q]: queue->front, NULL or a node
    nodes,          \* nodes[n][q]: the node transaction n queues on q: the type and
                    \* the timestamp of its timestamp_and_type, and its sender tag
    txpc,           \* txpc[n]: phase of the transaction of sender n
    dests,          \* dests[n]: the destination queues of the transaction
    staged,         \* staged[n]: destinations holding the staging entry
    committed,      \* committed[n]: destinations the commit phase is done with
    maxSeen,        \* maxSeen[n]: highest staging timestamp the transaction has seen
    wake,           \* the wake signal of the last queue operation
    flushed,        \* flushed[q]: the nodes flush moved onto the caller's list
    torn,           \* torn[q]: the peer of q was torn down
    dequeued,       \* history: dequeued[q]: the nodes the reader of q dequeued, in order
    began           \* history: began[n]: the commits << m, q >> that were complete
                    \* when transaction n took its first step

activeVars == << count, pc, v, arg, ret, held, waiters, sleeping, wstage,
                 relOwner, toRelease, cbRuns, cbSkipped, drainTrue,
                 drainReturned, deactReturned >>

queueVars == << clock, messages, front, nodes, txpc, dests, staged, committed,
                maxSeen, wake, flushed, torn, dequeued, began >>

vars == << activeVars, queueVars >>

NoValue == "none"
Bool(b) == IF b THEN "true" ELSE "false"
NoArg == << TRUE, TRUE, TRUE >>

(***************************************************************************)
(* active.c: predicates on the counter.                                    *)
(***************************************************************************)
\* variant: the check for NEW never fires
bus1_active_is_never_new(c) == FALSE

bus1_active_is_new(c) == c = BUS1_ACTIVE_NEW

bus1_active_is_active(c) == c >= 0

\* variant: every object that is not new counts as deactivated
bus1_active_is_not_new(c) == c > BUS1_ACTIVE_NEW

bus1_active_is_deactivated(c) == c > BUS1_ACTIVE_NEW /\ c < 0


\* variant: the comparison does not tell NEW from the other negative values
atomic_cmpxchg_sign(c, old, new) == IF c = old \/ (c < 0 /\ old < 0) THEN new ELSE c

\* variant: a plain store where the compare-and-exchange belongs
atomic_cmpxchg_store(c, old, new) == new

\* atomic_cmpxchg(): the value of the counter after the operation; the
\* operation returns the value before it.
atomic_cmpxchg(c, old, new) == IF c = old THEN new ELSE c


\* variant: atomic_inc_not_zero() in place of atomic_inc_unless_negative()
atomic_inc_not_zero(c) == IF c # 0 THEN << c + 1, TRUE >> ELSE << c, FALSE >>

\* variant: atomic_inc_return() in place of atomic_inc_unless_negative()
atomic_inc_always(c) == << c + 1, TRUE >>

\* variant: the increment is refused at 0 already
atomic_inc_if_positive(c) == IF c > 0 THEN << c + 1, TRUE >> ELSE << c, FALSE >>

\* atomic_inc_unless_negative(): the counter after it and whether it added.
atomic_inc_unless_negative(c) == IF c >= 0 THEN << c + 1, TRUE >> ELSE << c, FALSE >>

\* variant: atomic_dec_if_positive() in place of atomic_dec_return()
atomic_dec_if_positive(c) == IF c > 0 THEN c - 1 ELSE c

\* atomic_dec_return()
atomic_dec_return(c) == c - 1


\* variant: the loop of add_unless_negative stops at 0, so ACTIVE(0) is not biased
add_unless_positive_cond(x) == x > 0

\* active.c:154: the loop condition of bus1_active_add_unless_negative()
add_unless_negative_cond(x) == x >= 0


\* active.c:228: the first wait condition of bus1_active_drain()
drain_wait_released(c) == c <= BUS1_ACTIVE_BIAS


\* variant: the losing drain call waits for RELEASE, not for DRAINED
drain_wait_release_started(c) == c <= BUS1_ACTIVE_BIAS

\* active.c:264: the second wait condition of bus1_active_drain()
drain_wait_drained(c) == c = BUS1_ACTIVE_DRAINED


\* variant: every caller that saw a drained counter takes itself for the releaser
drain_is_releaser_any(x) == x <= BUS1_ACTIVE_BIAS

\* active.c:242, 280: "this is the thread that marked the object as RELEASE"
drain_is_releaser(x) == x = BUS1_ACTIVE_BIAS \/ x = BUS1_ACTIVE_RELEASE_DIRECT

\* variant: release wakes the wait-queue when the counter reaches 0
release_must_wake_at_zero(c) == c = 0

\* active.c:334: release wakes the wait-queue when it dropped the last reference
release_must_wake(c) == c = BUS1_ACTIVE_BIAS

(***************************************************************************)
(* include/linux/wait.h as active.c uses it.  wake_up() and wake_up_all()  *)
(* run every non-exclusive waiter's autoremove_wake_function(): the task   *)
(* becomes TASK_RUNNING and leaves the list.  wait_event() waiters are     *)
(* non-exclusive, so both calls wake them all.                             *)
(***************************************************************************)
wake_up_sleeping == [t \in Threads |-> IF t \in waiters THEN FALSE ELSE sleeping[t]]

ActiveInit ==
    /\ count = BUS1_ACTIVE_NEW
    /\ pc = [t \in Threads |-> "idle"]
    /\ v = [t \in Threads |-> 0]
    /\ arg = [t \in Threads |-> NoArg]
    /\ ret = [t \in Threads |-> NoValue]
    /\ held = [t \in Threads |-> 0]
    /\ waiters = {}
    /\ sleeping = [t \in Threads |-> FALSE]
    /\ wstage = [t \in Threads |-> "enter"]
    /\ relOwner = 0
    /\ toRelease = 0
    /\ cbRuns = 0
    /\ cbSkipped = FALSE
    /\ drainTrue = 0
    /\ drainReturned = FALSE
    /\ deactReturned = FALSE

histVars == << relOwner, toRelease, cbRuns, cbSkipped, drainTrue,
               drainReturned, deactReturned >>
waitVars == << waiters, sleeping, wstage >>

Goto(t, l) == pc' = [pc EXCEPT ![t] = l]

(***************************************************************************)
(* The function returns to its caller.                                     *)
(***************************************************************************)
Return(t) ==
    /\ pc[t] \in { "ret_activate", "ret_acquire", "ret_release",
                   "ret_deactivate", "ret_drain", "ret_drain_warn" }
    /\ Goto(t, "idle")
    /\ v' = [v EXCEPT ![t] = 0]
    /\ arg' = [arg EXCEPT ![t] = NoArg]
    /\ ret' = [ret EXCEPT ![t] = NoValue]
    /\ deactReturned' = (deactReturned \/ pc[t] = "ret_deactivate")
    /\ drainReturned' = (drainReturned \/ pc[t] = "ret_drain")
    /\ drainTrue' = IF pc[t] \in { "ret_drain", "ret_drain_warn" } /\ ret[t] = "true"
                    THEN drainTrue + 1 ELSE drainTrue
    /\ relOwner' = IF relOwner = t /\ pc[t] = "ret_drain" THEN -1 ELSE relOwner
    /\ UNCHANGED << count, held, waitVars, toRelease, cbRuns, cbSkipped >>

(***************************************************************************)
(* bus1_active_activate(), active.c:139-143                                *)
(***************************************************************************)
bus1_active_activate(t) ==
    /\ pc[t] = "idle"
    /\ count' = atomic_cmpxchg(count, BUS1_ACTIVE_NEW, 0)
    /\ ret' = [ret EXCEPT ![t] = Bool(count = BUS1_ACTIVE_NEW)]
    /\ Goto(t, "ret_activate")
    /\ UNCHANGED << v, arg, held, waitVars, histVars >>

(***************************************************************************)
(* bus1_active_acquire(), active.c:296-311.  a: the argument is not NULL.  *)
(***************************************************************************)
bus1_active_acquire(t, a) ==
    /\ pc[t] = "idle"
    /\ held[t] < MaxHeld
    /\ arg' = [arg EXCEPT ![t] = << a, TRUE, TRUE >>]
    /\ LET r == atomic_inc_unless_negative(count)
           res == a /\ r[2]
       IN  /\ count' = IF a THEN r[1] ELSE count
           /\ ret' = [ret EXCEPT ![t] = IF res THEN "active" ELSE "NULL"]
           /\ held' = [held EXCEPT ![t] = IF res THEN @ + 1 ELSE @]
    /\ Goto(t, "ret_acquire")
    /\ UNCHANGED << v, waitVars, histVars >>

(***************************************************************************)
(* bus1_active_release(), active.c:325-340: the decrement, then the        *)
(* wake_up() as a second step.  a: active is not NULL, w: waitq is not     *)
(* NULL.  Only a thread that holds an active reference releases one.       *)
(***************************************************************************)
bus1_active_release(t, a, w) ==
    /\ pc[t] = "idle"
    /\ a => held[t] > 0
    /\ arg' = [arg EXCEPT ![t] = << a, w, TRUE >>]
    /\ IF a
       THEN /\ count' = atomic_dec_return(count)
            /\ held' = [held EXCEPT ![t] = @ - 1]
            /\ IF release_must_wake(count') /\ w
               THEN Goto(t, "release_wake")
               ELSE Goto(t, "ret_release")
       ELSE /\ Goto(t, "ret_release")
            /\ UNCHANGED << count, held >>
    /\ ret' = [ret EXCEPT ![t] = "NULL"]
    /\ UNCHANGED << v, waitVars, histVars >>

\* active.c:336
bus1_active_release_wake(t) ==
    /\ pc[t] = "release_wake"
    /\ sleeping' = wake_up_sleeping
    /\ waiters' = {}
    /\ Goto(t, "ret_release")
    /\ UNCHANGED << count, v, arg, ret, held, wstage, histVars >>

(***************************************************************************)
(* bus1_active_deactivate(), active.c:170-178, with                        *)
(* bus1_active_add_unless_negative(), active.c:150-161: the read of the    *)
(* counter and each atomic_cmpxchg() of the loop are steps of their own.   *)
(***************************************************************************)
bus1_active_deactivate(t) ==
    /\ pc[t] = "idle"
    /\ count' = atomic_cmpxchg(count, BUS1_ACTIVE_NEW, BUS1_ACTIVE_RELEASE_DIRECT)
    /\ IF count # BUS1_ACTIVE_NEW
       THEN Goto(t, "add_read")
       ELSE Goto(t, "ret_deactivate")
    /\ UNCHANGED << v, arg, ret, held, waitVars, histVars >>

\* active.c:154, the initial atomic_read()
bus1_active_add_unless_negative_read(t) ==
    /\ pc[t] = "add_read"
    /\ v' = [v EXCEPT ![t] = count]
    /\ IF add_unless_negative_cond(count)
       THEN Goto(t, "add_cmpxchg")
       ELSE Goto(t, "ret_deactivate")
    /\ UNCHANGED << count, arg, ret, held, waitVars, histVars >>

\* active.c:155-157, one iteration of the loop
bus1_active_add_unless_negative_cmpxchg(t) ==
    /\ pc[t] = "add_cmpxchg"
    /\ count' = atomic_cmpxchg(count, v[t], v[t] + BUS1_ACTIVE_BIAS)
    /\ v' = [v EXCEPT ![t] = count]
    /\ IF count = v[t] \/ ~add_unless_negative_cond(count)
       THEN Goto(t, "ret_deactivate")
       ELSE Goto(t, "add_cmpxchg")
    /\ UNCHANGED << arg, ret, held, waitVars, histVars >>

(***************************************************************************)
(* wait_event(waitq, cond) at label l of thread t, continuing at next.     *)
(*   "enter":    if (cond) break; else prepare_to_wait_event(): link the   *)
(*               task on the wait-queue, set it TASK_UNINTERRUPTIBLE       *)
(*   "check":    if (cond) break (and finish_wait()); else schedule()      *)
(*   "schedule": schedule() returns once the task was woken; the loop      *)
(*               calls prepare_to_wait_event() again                       *)
(***************************************************************************)
wait_event(t, l, cond, next) ==
    /\ pc[t] = l
    /\ CASE wstage[t] = "enter" ->
              IF cond
              THEN Goto(t, next) /\ UNCHANGED waitVars
              ELSE /\ waiters' = waiters \cup {t}
                   /\ sleeping' = [sleeping EXCEPT ![t] = TRUE]
                   /\ wstage' = [wstage EXCEPT ![t] = "check"]
                   /\ UNCHANGED pc
         [] wstage[t] = "check" ->
              IF cond
              THEN /\ waiters' = waiters \ {t}
                   /\ sleeping' = [sleeping EXCEPT ![t] = FALSE]
                   /\ wstage' = [wstage EXCEPT ![t] = "enter"]
                   /\ Goto(t, next)
              ELSE /\ wstage' = [wstage EXCEPT ![t] = "schedule"]
                   /\ UNCHANGED << pc, waiters, sleeping >>
         [] wstage[t] = "schedule" ->
              /\ ~sleeping[t]
              /\ waiters' = waiters \cup {t}
              /\ sleeping' = [sleeping EXCEPT ![t] = TRUE]
              /\ wstage' = [wstage EXCEPT ![t] = "check"]
              /\ UNCHANGED pc

(***************************************************************************)
(* bus1_active_drain(), active.c:201-281.  The argument release is read   *)
(* at active.c:249 only, where the model draws it: r says it is not NULL.  *)
(***************************************************************************)
\* active.c:207-208
bus1_active_drain(t) ==
    /\ pc[t] = "idle"
    /\ IF ~bus1_active_is_deactivated(count)
       THEN /\ ret' = [ret EXCEPT ![t] = Bool(FALSE)]
            /\ Goto(t, "ret_drain_warn")
       ELSE /\ Goto(t, "drain_wait_released")
            /\ UNCHANGED ret
    /\ UNCHANGED << count, v, arg, held, waitVars, histVars >>

\* active.c:228
bus1_active_drain_wait_released(t) ==
    /\ wait_event(t, "drain_wait_released", drain_wait_released(count),
                  "drain_cmpxchg_direct")
    /\ UNCHANGED << count, v, arg, ret, held, histVars >>

\* active.c:231-233 and the branch of active.c:242
bus1_active_drain_cmpxchg_direct(t) ==
    /\ pc[t] = "drain_cmpxchg_direct"
    /\ count' = atomic_cmpxchg(count, BUS1_ACTIVE_RELEASE_DIRECT, BUS1_ACTIVE_RELEASE)
    /\ v' = [v EXCEPT ![t] = count]
    /\ IF count # BUS1_ACTIVE_RELEASE_DIRECT
       THEN Goto(t, "drain_cmpxchg_bias")
       ELSE IF drain_is_releaser(count)
            THEN Goto(t, "drain_release")
            ELSE Goto(t, "drain_wait_drained")
    /\ toRelease' = IF count' # count THEN toRelease + 1 ELSE toRelease
    /\ relOwner' = IF count' # count THEN t ELSE relOwner
    /\ UNCHANGED << arg, ret, held, waitVars, cbRuns, cbSkipped, drainTrue,
                    drainReturned, deactReturned >>

\* active.c:234-235 and the branch of active.c:242
bus1_active_drain_cmpxchg_bias(t) ==
    /\ pc[t] = "drain_cmpxchg_bias"
    /\ count' = atomic_cmpxchg(count, BUS1_ACTIVE_BIAS, BUS1_ACTIVE_RELEASE)
    /\ v' = [v EXCEPT ![t] = count]
    /\ IF drain_is_releaser(count)
       THEN Goto(t, "drain_release")
       ELSE Goto(t, "drain_wait_drained")
    /\ toRelease' = IF count' # count THEN toRelease + 1 ELSE toRelease
    /\ relOwner' = IF count' # count THEN t ELSE relOwner
    /\ UNCHANGED << arg, ret, held, waitVars, cbRuns, cbSkipped, drainTrue,
                    drainReturned, deactReturned >>

\* active.c:249-250: the release callback, if one was given
bus1_active_drain_release(t, r) ==
    /\ pc[t] = "drain_release"
    /\ arg' = [arg EXCEPT ![t] = << TRUE, TRUE, r >>]
    /\ cbRuns' = IF r THEN cbRuns + 1 ELSE cbRuns
    /\ cbSkipped' = (cbSkipped \/ ~r)
    /\ Goto(t, "drain_set_drained")
    /\ UNCHANGED << count, v, ret, held, waitVars, relOwner, toRelease,
                    drainTrue, drainReturned, deactReturned >>

\* active.c:253
bus1_active_drain_set_drained(t) ==
    /\ pc[t] = "drain_set_drained"
    /\ count' = BUS1_ACTIVE_DRAINED
    /\ Goto(t, "drain_wake_all")
    /\ UNCHANGED << v, arg, ret, held, waitVars, histVars >>

\* active.c:254 and the return of active.c:280
bus1_active_drain_wake_all(t) ==
    /\ pc[t] = "drain_wake_all"
    /\ sleeping' = wake_up_sleeping
    /\ waiters' = {}
    /\ ret' = [ret EXCEPT ![t] = Bool(drain_is_releaser(v[t]))]
    /\ Goto(t, "ret_drain")
    /\ UNCHANGED << count, v, arg, held, wstage, histVars >>

\* active.c:263-264 and the return of active.c:280
bus1_active_drain_wait_drained(t) ==
    /\ wait_event(t, "drain_wait_drained", drain_wait_drained(count), "ret_drain")
    /\ ret' = [ret EXCEPT ![t] = IF pc'[t] = "ret_drain"
                                 THEN Bool(drain_is_releaser(v[t])) ELSE @]
    /\ UNCHANGED << count, v, arg, held, histVars >>

(***************************************************************************)
(* Every step of thread t.  objs: the active arguments acquire and release *)
(* are given (FALSE is NULL), wqs: the waitq arguments release is given,   *)
(* cbs: the release arguments drain is given.                              *)
(***************************************************************************)
ActiveStep(t, objs, wqs, cbs) ==
    \/ bus1_active_activate(t)
    \/ \E a \in objs : bus1_active_acquire(t, a)
    \/ \E a \in objs, w \in wqs : bus1_active_release(t, a, w)
    \/ bus1_active_release_wake(t)
    \/ bus1_active_deactivate(t)
    \/ bus1_active_add_unless_negative_read(t)
    \/ bus1_active_add_unless_negative_cmpxchg(t)
    \/ bus1_active_drain(t)
    \/ bus1_active_drain_wait_released(t)
    \/ bus1_active_drain_cmpxchg_direct(t)
    \/ bus1_active_drain_cmpxchg_bias(t)
    \/ \E r \in cbs : bus1_active_drain_release(t, r)
    \/ bus1_active_drain_set_drained(t)
    \/ bus1_active_drain_wake_all(t)
    \/ bus1_active_drain_wait_drained(t)
    \/ Return(t)

ActiveNext ==
    /\ \E t \in Threads : ActiveStep(t, BOOLEAN, BOOLEAN, BOOLEAN)
    /\ UNCHANGED queueVars

(***************************************************************************)
(* The logical state the counter encodes (active.c:17-44).                 *)
(***************************************************************************)
LogicalState(c) ==
    CASE c = BUS1_ACTIVE_NEW -> "NEW"
      [] c >= 0 -> "ACTIVE"
      [] c = BUS1_ACTIVE_RELEASE_DIRECT -> "RELEASE_DIRECT"
      [] c = BUS1_ACTIVE_RELEASE -> "RELEASE"
      [] c = BUS1_ACTIVE_DRAINED -> "DRAINED"
      [] c >= BUS1_ACTIVE_BIAS /\ c < 0 -> "DRAINING"
      [] OTHER -> "RESERVED"

Holders == { t \in Threads : held[t] > 0 }

\* t stands inside bus1_active_drain(), past the check of active.c:207
InDrain(t) ==
    pc[t] \in { "drain_wait_released", "drain_cmpxchg_direct", "drain_cmpxchg_bias",
                "drain_release", "drain_set_drained", "drain_wake_all",
                "drain_wait_drained" }

\* the window between the cmpxchg to RELEASE and the store of DRAINED
InReleaseWindow == \E t \in Threads : pc[t] \in { "drain_release", "drain_set_drained" }

\* the step of t is a call of bus1_active_acquire()
AcquireStep(t) == pc[t] = "idle" /\ pc'[t] = "ret_acquire"

(***************************************************************************)
(* C1.  At most one drain call moves the counter to RELEASE; that call     *)
(* alone invokes the release callback, once, and returns true; every other *)
(* drain call returns false.  Once a drain call on a deactivated object    *)
(* has returned the callback has run exactly once (not at all if the       *)
(* releasing call was given no callback), and while the object is not      *)
(* deactivated it has not run.                                             *)
(***************************************************************************)
C1_OneReleaser ==
    /\ toRelease <= 1
    /\ cbRuns <= 1
    /\ drainTrue <= 1
    /\ \A t \in Threads :
        /\ pc[t] \in { "drain_release", "drain_set_drained", "drain_wake_all" }
              => relOwner = t
        /\ pc[t] = "ret_drain" => (ret[t] = "true" <=> relOwner = t)
        /\ pc[t] = "ret_drain_warn" => ret[t] = "false"
        /\ pc[t] = "ret_drain" /\ ret[t] = "true"
              => cbRuns = (IF arg[t][3] THEN 1 ELSE 0) /\ drainTrue = 0
    /\ drainTrue = 1 => relOwner = -1
    /\ (drainReturned \/ \E t \in Threads : pc[t] = "ret_drain")
          => toRelease = 1 /\ cbRuns = (IF cbSkipped THEN 0 ELSE 1)
    /\ ~bus1_active_is_deactivated(count) => cbRuns = 0 /\ toRelease = 0

\* two racing drain calls: the releaser has returned true, the other one saw
\* RELEASE in its cmpxchg and returns false
C1_Witness ==
    /\ drainTrue = 1
    /\ cbRuns = 1
    /\ \E t \in Threads : pc[t] = "ret_drain" /\ ret[t] = "false"
                          /\ v[t] = BUS1_ACTIVE_RELEASE

(***************************************************************************)
(* C2.  Between the cmpxchg to RELEASE and the store of DRAINED no active  *)
(* reference is outstanding, and from the cmpxchg on no acquire succeeds.  *)
(***************************************************************************)
C2_NoReferenceWhileReleasing ==
    /\ InReleaseWindow => count = BUS1_ACTIVE_RELEASE /\ Holders = {}
    /\ toRelease >= 1 =>
          /\ Holders = {}
          /\ count \in { BUS1_ACTIVE_RELEASE, BUS1_ACTIVE_DRAINED }
          /\ \A t \in Threads : pc[t] = "ret_acquire" => ret[t] = "NULL"

\* the callback has run, DRAINED is not stored yet, the object had been active
\* and an acquire of another thread has just failed
C2_Witness ==
    \E t, u \in Threads :
        /\ pc[t] = "drain_set_drained" /\ v[t] = BUS1_ACTIVE_BIAS /\ cbRuns = 1
        /\ pc[u] = "ret_acquire" /\ arg[u][1] /\ ret[u] = "NULL"

(***************************************************************************)
(* C3.  Once a call of deactivate has returned, every acquire fails and    *)
(* leaves the counter unchanged; while a reference acquired earlier is     *)
(* still held the object is not released.                                  *)
(***************************************************************************)
C3_NoAcquireAfterDeactivate ==
    [][ /\ deactReturned =>
              \A t \in Threads : AcquireStep(t) =>
                  ret'[t] = "NULL" /\ count' = count /\ held' = held
        /\ Holders' # {} => toRelease' = 0 /\ count' > BUS1_ACTIVE_BIAS ]_vars

\* a deactivate has returned, one reference of before is still held, and an
\* acquire on the object has failed
C3_Witness ==
    /\ deactReturned
    /\ count = BUS1_ACTIVE_BIAS + 1
    /\ \E t, u \in Threads :
        /\ held[u] = 1
        /\ pc[t] = "ret_acquire" /\ arg[t][1] /\ ret[t] = "NULL"

(***************************************************************************)
(* C4.  When a drain call on a deactivated object returns, on any thread   *)
(* and with either result, the counter is DRAINED, the release callback    *)
(* has completed, and no reference is or will be outstanding.              *)
(***************************************************************************)
C4_DrainedWhenDrainReturns ==
    (drainReturned \/ \E t \in Threads : pc[t] = "ret_drain") =>
        /\ count = BUS1_ACTIVE_DRAINED
        /\ ~InReleaseWindow
        /\ cbRuns = (IF cbSkipped THEN 0 ELSE 1)
        /\ Holders = {}
        /\ \A t \in Threads : pc[t] = "ret_acquire" => ret[t] = "NULL"

\* a drain call that lost the race returns false before the releasing call
\* has returned
C4_Witness ==
    \E t, u \in Threads :
        /\ pc[t] = "ret_drain" /\ ret[t] = "false"
        /\ pc[u] = "drain_wake_all"

(***************************************************************************)
(* C5.  The logical state only moves along NEW -> ACTIVE -> DRAINING ->    *)
(* RELEASE -> DRAINED or NEW -> RELEASE_DIRECT -> RELEASE -> DRAINED, and  *)
(* is_deactivated(), once true, stays true.                                *)
(***************************************************************************)
StateEdges ==
    { << "NEW", "ACTIVE" >>, << "NEW", "RELEASE_DIRECT" >>,
      << "ACTIVE", "DRAINING" >>, << "DRAINING", "RELEASE" >>,
      << "RELEASE_DIRECT", "RELEASE" >>, << "RELEASE", "DRAINED" >> }

C5_StateOnlyMovesForward ==
    [][ /\ \/ LogicalState(count') = LogicalState(count)
           \/ << LogicalState(count), LogicalState(count') >> \in StateEdges
        /\ (count > BUS1_ACTIVE_NEW /\ count < 0)
              => (count' > BUS1_ACTIVE_NEW /\ count' < 0) ]_vars

\* the object went NEW, ACTIVE, DRAINING, RELEASE, DRAINED
C5_Witness ==
    /\ count = BUS1_ACTIVE_DRAINED
    /\ \E t \in Threads : pc[t] = "ret_drain" /\ v[t] = BUS1_ACTIVE_BIAS

(***************************************************************************)
(* C6.  The threads as the liveness claim supposes them: acquire and       *)
(* release are given the object and the wait-queue the drain calls sleep   *)
(* on, drain is given a callback (which terminates), and the next call of  *)
(* a thread that holds an active reference is the                          *)
(* release of it.  Once the object is DRAINED the only calls still made    *)
(* are drain calls.  A thread inside a function of active.c keeps running, *)
(* the release callback included, and a holder does call release: weak     *)
(* fairness of the next step of every such thread.                         *)
(***************************************************************************)
ActiveLiveStep(t) ==
    /\ ActiveStep(t, {TRUE}, {TRUE}, {TRUE})
    /\ (pc[t] = "idle" /\ held[t] > 0) => pc'[t] \in { "release_wake", "ret_release" }
    /\ (pc[t] = "idle" /\ count = BUS1_ACTIVE_DRAINED) => pc'[t] = "drain_wait_released"

ActiveLiveNext ==
    /\ \E t \in Threads : ActiveLiveStep(t)
    /\ UNCHANGED queueVars

ActiveLiveFairness ==
    \A t \in Threads :
        WF_vars((pc[t] # "idle" \/ held[t] > 0) /\ ActiveLiveStep(t) /\ UNCHANGED queueVars)

\* Every drain call on a deactivated object returns.
C6_DrainReturns ==
    \A t \in Threads : InDrain(t) ~> (pc[t] = "ret_drain")

\* a drain call sleeps in schedule() while the last reference is dropped and
\* the wake_up() of release is still to come
C6_Witness ==
    \E t, u \in Threads :
        /\ pc[t] = "drain_wait_released" /\ wstage[t] = "schedule" /\ sleeping[t]
        /\ pc[u] = "release_wake" /\ count = BUS1_ACTIVE_BIAS

(***************************************************************************)
(* C7.  acquire returns the object and adds exactly one to the counter if  *)
(* and only if the counter is >= 0 and the argument is not NULL; in every  *)
(* other logical state, and for NULL, it returns NULL and changes nothing. *)
(***************************************************************************)
C7_AcquireIffNonNegative ==
    [][ \A t \in Threads : AcquireStep(t) =>
            IF arg'[t][1] /\ count >= 0
            THEN /\ LogicalState(count) = "ACTIVE"
                 /\ ret'[t] = "active"
                 /\ count' = count + 1
                 /\ held' = [held EXCEPT ![t] = @ + 1]
            ELSE /\ ret'[t] = "NULL"
                 /\ count' = count
                 /\ held' = held ]_vars

\* one acquire has succeeded, the object was deactivated, another one failed
C7_Witness ==
    \E t, u \in Threads :
        /\ pc[t] = "ret_acquire" /\ ret[t] = "active" /\ count = BUS1_ACTIVE_BIAS + 1
        /\ pc[u] = "ret_acquire" /\ ret[u] = "NULL" /\ arg[u][1]


(***************************************************************************)
(* C17.  As stated: in every reachable state count <= BIAS holds if and    *)
(* only if the object has been deactivated and no acquired reference is    *)
(* outstanding.  The state NEW refutes it: BUS1_ACTIVE_NEW lies below      *)
(* BUS1_ACTIVE_BIAS on an object nobody has deactivated.                   *)
(***************************************************************************)
C17_BelowBiasIffDeactivatedAndReleased ==
    (count <= BUS1_ACTIVE_BIAS)
        <=> (bus1_active_is_deactivated(count) /\ Holders = {})

(***************************************************************************)
(* C17, amended.  In every reachable state but NEW, count <= BIAS holds if *)
(* and only if the object has been deactivated and no acquired reference   *)
(* is outstanding; in NEW count is below BIAS and the object has not been  *)
(* deactivated.                                                            *)
(***************************************************************************)
C17_BelowBiasIffDeactivatedAndReleasedUnlessNew ==
    IF bus1_active_is_new(count)
    THEN count <= BUS1_ACTIVE_BIAS /\ ~bus1_active_is_deactivated(count)
    ELSE (count <= BUS1_ACTIVE_BIAS)
             <=> (bus1_active_is_deactivated(count) /\ Holders = {})

\* the last reference of a deactivated object has just been released
C17_Witness ==
    \E t \in Threads :
        /\ pc[t] \in { "release_wake", "ret_release" }
        /\ arg[t][1]
        /\ count = BUS1_ACTIVE_BIAS
        /\ Holders = {}


(***************************************************************************)
(* C18.  Count accounting.  Every release is the release of a reference a  *)
(* successful acquire handed out (the guard of bus1_active_release in the  *)
(* model).  With k references outstanding, count is k while the object is  *)
(* active and BIAS + k once it is deactivated and not yet releasing; below *)
(* BIAS count is one of the four sentinels and no reference is             *)
(* outstanding.  The step that deactivates an active object adds BIAS and  *)
(* leaves k alone, and a release takes one off count and k and never       *)
(* lands below BIAS.                                                       *)
(***************************************************************************)
RECURSIVE HeldBy(_)
HeldBy(S) == IF S = {} THEN 0
             ELSE LET t == CHOOSE u \in S : TRUE IN held[t] + HeldBy(S \ { t })

Outstanding == HeldBy(Threads)

C18_CountAccounting ==
    /\ [](/\ bus1_active_is_active(count) => count = Outstanding
          /\ (count >= BUS1_ACTIVE_BIAS /\ count < 0) =>
                 count = BUS1_ACTIVE_BIAS + Outstanding
          /\ count < BUS1_ACTIVE_BIAS =>
                 /\ count \in { BUS1_ACTIVE_RELEASE_DIRECT, BUS1_ACTIVE_RELEASE,
                                BUS1_ACTIVE_DRAINED, BUS1_ACTIVE_NEW }
                 /\ Outstanding = 0)
    /\ [][ /\ (bus1_active_is_active(count) /\ ~bus1_active_is_active(count')) =>
                  /\ count' = BUS1_ACTIVE_BIAS + count
                  /\ held' = held
           /\ Outstanding' < Outstanding =>
                  /\ Outstanding' = Outstanding - 1
                  /\ count' = count - 1
                  /\ count' >= BUS1_ACTIVE_BIAS
         ]_vars

\* an active object with a reference outstanding was deactivated and the
\* reference is still out
C18_Witness ==
    \E t \in Threads :
        /\ pc[t] = "ret_deactivate"
        /\ Outstanding > 0
        /\ count = BUS1_ACTIVE_BIAS + Outstanding


(***************************************************************************)
(* C19.  A call of drain on an object that is not deactivated (NEW or      *)
(* active) takes the WARN_ON branch: it returns false in that one step,    *)
(* without waiting, without the release callback and without a change of   *)
(* count, and all that is left of the call is its return.                  *)
(***************************************************************************)
DrainCall(t) ==
    pc[t] = "idle" /\ pc'[t] \in { "ret_drain_warn", "drain_wait_released" }

C19_DrainBeforeDeactivateFails ==
    [][ \A t \in Threads :
            /\ (DrainCall(t) /\ (bus1_active_is_new(count) \/ bus1_active_is_active(count))) =>
                   /\ pc'[t] = "ret_drain_warn"
                   /\ ret'[t] = Bool(FALSE)
                   /\ count' = count
                   /\ UNCHANGED << held, waiters, sleeping, wstage, cbRuns, toRelease >>
            /\ pc[t] = "ret_drain_warn" =>
                   /\ pc'[t] \in { "ret_drain_warn", "idle" }
                   /\ ~sleeping[t] /\ t \notin waiters
                   /\ pc'[t] = "idle" =>
                          UNCHANGED << count, held, cbRuns, toRelease, drainReturned >>
      ]_vars

\* drain was called on an active object with a reference outstanding, where
\* a drain that went on would wait
C19_Witness ==
    \E t, u \in Threads :
        /\ pc[t] = "ret_drain_warn" /\ ret[t] = Bool(FALSE)
        /\ held[u] > 0 /\ count > 0
        /\ cbRuns = 0


(***************************************************************************)
(* C20.  activate and deactivate are idempotent.  A call of activate       *)
(* returns true exactly when it moves count from NEW to 0, and count never *)
(* returns to NEW, so one call at most does; every other call returns      *)
(* false and leaves count as it is.  No step of a deactivate call changes  *)
(* count once the object is deactivated, releasing or drained, and a       *)
(* deactivate of a new object leaves RELEASE_DIRECT, not BIAS.             *)
(***************************************************************************)
ActivateCall(t) == pc[t] = "idle" /\ pc'[t] = "ret_activate"

DeactivateCall(t) ==
    \/ pc[t] = "idle" /\ pc'[t] \in { "add_read", "ret_deactivate" }
    \/ pc[t] \in { "add_read", "add_cmpxchg" } /\ (pc'[t] # pc[t] \/ v'[t] # v[t])

C20_ActivateDeactivateIdempotent ==
    [][ /\ ~bus1_active_is_new(count) => ~bus1_active_is_new(count')
        /\ \A t \in Threads :
               /\ ActivateCall(t) =>
                      /\ ret'[t] \in { Bool(TRUE), Bool(FALSE) }
                      /\ ret'[t] = Bool(TRUE) <=>
                             (bus1_active_is_new(count) /\ count' = 0)
                      /\ ret'[t] = Bool(FALSE) => count' = count
               /\ (DeactivateCall(t) /\ bus1_active_is_deactivated(count)) =>
                      count' = count
               /\ (DeactivateCall(t) /\ bus1_active_is_new(count)) =>
                      /\ count' = BUS1_ACTIVE_RELEASE_DIRECT
                      /\ pc'[t] = "ret_deactivate"
      ]_vars

\* one activate has returned true and another false, the object was
\* deactivated, and a second deactivate call has read the counter and is
\* about to return
C20_Witness ==
    \E t, u \in Threads :
        /\ t # u
        /\ pc[t] = "ret_activate" /\ ret[t] = Bool(FALSE)
        /\ pc[u] = "ret_deactivate" /\ v[u] = BUS1_ACTIVE_BIAS
        /\ deactReturned
        /\ count = BUS1_ACTIVE_BIAS


(***************************************************************************)
(* main.c: the data commands of bus1_fop_ioctl(), main.c:159-171, on the   *)
(* peer whose active is the counter of Part I.  bus1_peer_acquire() and    *)
(* bus1_peer_release() are the acquire and the release of peer->active,    *)
(* the latter with the wait-queue of the peer.  CONNECT and DISCONNECT on  *)
(* the same peer are the calls of activate, deactivate and drain the other *)
(* threads make.  A thread enters the handler holding no reference.        *)
(***************************************************************************)
ENOTCONN == "-ENOTCONN"
ESHUTDOWN == "-ESHUTDOWN"
IoctlResult == "r"

\* main.c:165-166
bus1_fop_ioctl(t) ==
    /\ pc[t] = "idle"
    /\ held[t] = 0
    /\ IF bus1_active_is_new(count)
       THEN /\ ret' = [ret EXCEPT ![t] = ENOTCONN]
            /\ Goto(t, "ret_ioctl")
       ELSE /\ Goto(t, "ioctl_acquire")
            /\ UNCHANGED ret
    /\ UNCHANGED << count, v, arg, held, waitVars, histVars >>

\* main.c:167-168
bus1_peer_acquire(t) ==
    /\ pc[t] = "ioctl_acquire"
    /\ LET r == atomic_inc_unless_negative(count)
       IN  /\ count' = r[1]
           /\ IF r[2]
              THEN /\ held' = [held EXCEPT ![t] = @ + 1]
                   /\ Goto(t, "ioctl_body")
                   /\ UNCHANGED ret
              ELSE /\ ret' = [ret EXCEPT ![t] = ESHUTDOWN]
                   /\ Goto(t, "ret_ioctl")
                   /\ UNCHANGED held
    /\ UNCHANGED << v, arg, waitVars, histVars >>

\* main.c:169: the command body; what it does to the peer is not modelled
bus1_peer_ioctl(t) ==
    /\ pc[t] = "ioctl_body"
    /\ ret' = [ret EXCEPT ![t] = IoctlResult]
    /\ Goto(t, "ioctl_release")
    /\ UNCHANGED << count, v, arg, held, waitVars, histVars >>

\* main.c:170, the decrement of bus1_active_release(), active.c:333
bus1_peer_release(t) ==
    /\ pc[t] = "ioctl_release"
    /\ count' = atomic_dec_return(count)
    /\ held' = [held EXCEPT ![t] = @ - 1]
    /\ IF release_must_wake(count')
       THEN Goto(t, "ioctl_release_wake")
       ELSE Goto(t, "ret_ioctl")
    /\ UNCHANGED << v, arg, ret, waitVars, histVars >>

\* the wake_up() of bus1_active_release(), active.c:336
bus1_peer_release_wake(t) ==
    /\ pc[t] = "ioctl_release_wake"
    /\ sleeping' = wake_up_sleeping
    /\ waiters' = {}
    /\ Goto(t, "ret_ioctl")
    /\ UNCHANGED << count, v, arg, ret, held, wstage, histVars >>

\* main.c:166, 168, 171
bus1_fop_ioctl_return(t) ==
    /\ pc[t] = "ret_ioctl"
    /\ ret' = [ret EXCEPT ![t] = NoValue]
    /\ Goto(t, "idle")
    /\ UNCHANGED << count, v, arg, held, waitVars, histVars >>

DeviceStep(t) ==
    \/ bus1_fop_ioctl(t)
    \/ bus1_peer_acquire(t)
    \/ bus1_peer_ioctl(t)
    \/ bus1_peer_release(t)
    \/ bus1_peer_release_wake(t)
    \/ bus1_fop_ioctl_return(t)

DeviceNext ==
    /\ \E t \in Threads : ActiveStep(t, BOOLEAN, BOOLEAN, BOOLEAN) \/ DeviceStep(t)
    /\ UNCHANGED queueVars

InIoctl(t) ==
    pc[t] \in { "ioctl_acquire", "ioctl_body", "ioctl_release", "ioctl_release_wake",
                "ret_ioctl" }

(***************************************************************************)
(* C26.  Device boundary.  Whatever the other threads do to the peer, the  *)
(* command body of a data ioctl runs only while the handler holds an       *)
(* active reference, which keeps the counter above BIAS and out of the     *)
(* release path; the handler takes that reference once and releases it     *)
(* once, and returns holding none.  It returns -ENOTCONN only from the     *)
(* step that saw the counter at NEW, and -ESHUTDOWN only from the acquire  *)
(* that failed on a deactivated counter; neither changes the counter.      *)
(***************************************************************************)
C26_DeviceBoundary ==
    /\ [](\A t \in Threads :
              /\ pc[t] \in { "ioctl_body", "ioctl_release" } =>
                     /\ held[t] = 1
                     /\ count > BUS1_ACTIVE_BIAS
                     /\ count # 0
                     /\ ~InReleaseWindow
              /\ pc[t] \in { "ioctl_acquire", "ioctl_release_wake", "ret_ioctl" } =>
                     held[t] = 0
              /\ pc[t] = "ioctl_acquire" => count # BUS1_ACTIVE_NEW
              /\ pc[t] = "ret_ioctl" => ret[t] \in { ENOTCONN, ESHUTDOWN, IoctlResult })
    /\ [][ \A t \in Threads :
               /\ (pc'[t] = "ret_ioctl" /\ pc[t] # "ret_ioctl") =>
                      /\ ret'[t] = ENOTCONN =>
                             /\ pc[t] = "idle"
                             /\ count = BUS1_ACTIVE_NEW /\ count' = count
                      /\ ret'[t] = ESHUTDOWN =>
                             /\ pc[t] = "ioctl_acquire"
                             /\ count < 0 /\ count > BUS1_ACTIVE_NEW
                             /\ count' = count
                      /\ ret'[t] = IoctlResult =>
                             /\ pc[t] \in { "ioctl_release", "ioctl_release_wake" }
                             /\ held[t] + held'[t] <= 1
               /\ pc'[t] = "ioctl_body" =>
                      \/ pc[t] = "ioctl_body"
                      \/ /\ pc[t] = "ioctl_acquire" /\ count >= 0
                         /\ count' = count + 1 /\ held[t] = 0
               /\ ((InIoctl(t) \/ InIoctl(t)') /\ held'[t] # held[t]) =>
                      \/ pc[t] = "ioctl_acquire" /\ pc'[t] = "ioctl_body"
                      \/ /\ pc[t] = "ioctl_release" /\ pc'[t] # "ioctl_release"
                         /\ count' = count - 1
         ]_vars

\* a data ioctl is in its command body on a peer that was disconnected
\* meanwhile, a drain waits for it, and another data ioctl was refused
C26_Witness ==
    \E t, u \in Threads :
        /\ pc[t] = "ioctl_body"
        /\ count = BUS1_ACTIVE_BIAS + 1
        /\ pc[u] = "ret_ioctl" /\ ret[u] = ESHUTDOWN
        /\ deactReturned


(***************************************************************************)
(*                                                                         *)
(* Part II: the queue (ipc/bus1/util/queue.h).                             *)
(*                                                                         *)
(***************************************************************************)

Queues == { "X", "Y" }
Senders == 1 .. NSenders
NULL == 0

Max(a, b) == IF a > b THEN a ELSE b
Elements(seq) == { seq[i] : i \in 1 .. Len(seq) }

(***************************************************************************)
(* queue.h:95-100.                                                         *)
(***************************************************************************)
BUS1_QUEUE_NODE_MESSAGE == 0
BUS1_QUEUE_NODE_HANDLE_DESTRUCTION == 1
BUS1_QUEUE_NODE_HANDLE_RELEASE == 2
BUS1_QUEUE_NODE_N == 3

(***************************************************************************)
(* The kind of node transaction n sends.                                   *)
(***************************************************************************)
NodeType(n) == (n - 1) % BUS1_QUEUE_NODE_N

(***************************************************************************)
(* timestamp_and_type is kept as its two bit-fields: the type in bits      *)
(* 62-63, the timestamp in bits 0-61 (queue.h:92-93).                      *)
(***************************************************************************)
bus1_queue_node_init_untagged(type, sender) ==
    [ type |-> type, timestamp |-> 0, sender |-> 0 ]

bus1_queue_node_init(type, sender) ==
    [ type |-> type, timestamp |-> 0, sender |-> sender ]

bus1_queue_node_get_type(node) == node.type

bus1_queue_node_get_timestamp(node) == node.timestamp

bus1_queue_node_is_queued(msgs, n) == n \in Elements(msgs)

node_is_never_staging(node) == FALSE

node_is_always_staging(node) == TRUE

bus1_queue_node_is_staging(node) == bus1_queue_node_get_timestamp(node) % 2 = 1

bus1_queue_tick_none(c) == c

bus1_queue_tick_by_one(c) == c + 1

bus1_queue_tick_by_three(c) == c + 3

bus1_queue_tick(c) == c + 2

bus1_queue_sync_never(c, timestamp) == c

bus1_queue_sync_assign(c, timestamp) == timestamp

bus1_queue_sync_past(c, timestamp) == IF c > timestamp THEN c ELSE timestamp + 1

bus1_queue_sync(c, timestamp) == IF c > timestamp THEN c ELSE timestamp

queue_is_never_readable(f) == FALSE

bus1_queue_is_readable(f) == f # NULL

bus1_queue_compare_timestamp_only(a_ts, a_sender, b_ts, b_sender) ==
    IF a_ts < b_ts THEN -1
    ELSE IF a_ts > b_ts THEN 1
    ELSE 0

bus1_queue_compare_sender_first(a_ts, a_sender, b_ts, b_sender) ==
    IF a_sender < b_sender THEN -1
    ELSE IF a_sender > b_sender THEN 1
    ELSE IF a_ts < b_ts THEN -1
    ELSE IF a_ts > b_ts THEN 1
    ELSE 0

bus1_queue_compare(a_ts, a_sender, b_ts, b_sender) ==
    IF a_ts < b_ts THEN -1
    ELSE IF a_ts > b_ts THEN 1
    ELSE IF a_sender < b_sender THEN -1
    ELSE IF a_sender > b_sender THEN 1
    ELSE 0

(***************************************************************************)
(* The tree of a queue is the sequence of its nodes in tree order.  A node *)
(* is linked below the last node it does not compare lower than.           *)
(***************************************************************************)
queue_link(msgs, n, T, q) ==
    LET cmp(m) == bus1_queue_compare(bus1_queue_node_get_timestamp(T[n][q]), T[n][q].sender,
                                     bus1_queue_node_get_timestamp(T[m][q]), T[m][q].sender)
        right == { i \in 1 .. Len(msgs) : cmp(msgs[i]) < 0 }
        at == IF right = {} THEN Len(msgs) + 1
              ELSE CHOOSE i \in right : \A j \in right : i <= j
    IN  SubSeq(msgs, 1, at - 1) \o << n >> \o SubSeq(msgs, at, Len(msgs))

queue_keep(msgs, n) == msgs

queue_unlink(msgs, n) == SelectSeq(msgs, LAMBDA m : m # n)

(***************************************************************************)
(* The front cache: the leftmost node if it is not staging, else NULL.     *)
(***************************************************************************)
queue_front(msgs, T, q) ==
    IF msgs # << >> /\ ~bus1_queue_node_is_staging(T[msgs[1]][q])
    THEN msgs[1]
    ELSE NULL

(***************************************************************************)
(* The queue operations.  qs is the queue [clock, messages, front], T the  *)
(* timestamp_and_type of every node; the result carries the queue and the  *)
(* nodes after the operation and what the operation returns.               *)
(***************************************************************************)
set_timestamp(T, n, q, ts) == [T EXCEPT ![n][q].timestamp = ts]

bus1_queue_stage(qs, T, q, n, timestamp) ==
    LET c == bus1_queue_sync(qs.clock, Max(qs.clock, timestamp))
        odd == c - 1
        T2 == set_timestamp(T, n, q, odd)
        m2 == queue_link(qs.messages, n, T2, q)
    IN  [ clock |-> c, messages |-> m2, front |-> queue_front(m2, T2, q),
          nodes |-> T2, ret |-> odd ]

bus1_queue_commit_staged(qs, T, q, n, timestamp) ==
    LET m1 == queue_unlink(qs.messages, n)
        T2 == set_timestamp(T, n, q, timestamp)
        m2 == queue_link(m1, n, T2, q)
        f == queue_front(m2, T2, q)
    IN  [ clock |-> bus1_queue_sync(qs.clock, timestamp), messages |-> m2,
          front |-> f, nodes |-> T2,
          ret |-> ~bus1_queue_is_readable(qs.front) /\ bus1_queue_is_readable(f) ]

bus1_queue_commit_unstaged(qs, T, q, n) ==
    LET c == bus1_queue_tick(qs.clock)
        T2 == set_timestamp(T, n, q, c)
        m2 == queue_link(qs.messages, n, T2, q)
        f == queue_front(m2, T2, q)
    IN  [ clock |-> c, messages |-> m2, front |-> f, nodes |-> T2,
          ret |-> ~bus1_queue_is_readable(qs.front) /\ bus1_queue_is_readable(f) ]

bus1_queue_remove(qs, T, q, n) ==
    IF ~bus1_queue_node_is_queued(qs.messages, n)
    THEN [ clock |-> qs.clock, messages |-> qs.messages, front |-> qs.front,
           nodes |-> T, ret |-> FALSE ]
    ELSE LET m2 == queue_unlink(qs.messages, n)
             f == queue_front(m2, T, q)
         IN  [ clock |-> qs.clock, messages |-> m2, front |-> f, nodes |-> T,
               ret |-> ~bus1_queue_is_readable(qs.front) /\ bus1_queue_is_readable(f) ]

bus1_queue_peek(qs, T, q) ==
    [ node |-> qs.front,
      continue |-> /\ qs.front # NULL
                   /\ Len(qs.messages) >= 2
                   /\ ~bus1_queue_node_is_staging(T[qs.messages[2]][q]) ]

bus1_queue_flush_ready(qs, T, q) ==
    LET staging(n) == bus1_queue_node_is_staging(T[n][q])
        m2 == SelectSeq(qs.messages, staging)
    IN  [ clock |-> qs.clock, messages |-> m2, front |-> NULL, nodes |-> T,
          list |-> Elements(qs.messages) \ Elements(m2) ]

bus1_queue_flush(qs, T, q) ==
    [ clock |-> qs.clock, messages |-> << >>, front |-> NULL, nodes |-> T,
      list |-> Elements(qs.messages) ]

(***************************************************************************)
(* bus1_queue_init(): an empty queue, its clock at 0.  Every transaction   *)
(* has one node per destination.                                           *)
(***************************************************************************)
QueueInit ==
    /\ clock = [q \in Queues |-> 0]
    /\ messages = [q \in Queues |-> << >>]
    /\ front = [q \in Queues |-> NULL]
    /\ nodes = [n \in Senders |-> [q \in Queues |-> bus1_queue_node_init(NodeType(n), n)]]
    /\ txpc = [n \in Senders |-> "new"]
    /\ dests = [n \in Senders |-> {}]
    /\ staged = [n \in Senders |-> {}]
    /\ committed = [n \in Senders |-> {}]
    /\ maxSeen = [n \in Senders |-> 0]
    /\ wake = FALSE
    /\ flushed = [q \in Queues |-> {}]
    /\ torn = [q \in Queues |-> FALSE]
    /\ dequeued = [q \in Queues |-> << >>]
    /\ began = [n \in Senders |-> {}]

QueueOf(q) == [ clock |-> clock[q], messages |-> messages[q], front |-> front[q] ]

\* the queue and the nodes take the result r of an operation on queue q
QueueApply(q, r) ==
    /\ clock' = [clock EXCEPT ![q] = r.clock]
    /\ messages' = [messages EXCEPT ![q] = r.messages]
    /\ front' = [front EXCEPT ![q] = r.front]
    /\ nodes' = r.nodes

(***************************************************************************)
(* A transaction of sender n to the destinations D.  A single destination  *)
(* takes the fast path, several are staged and then committed.  A          *)
(* destination whose peer is gone is dropped: the transaction is in its    *)
(* stage phase while a live destination is not staged, then in its commit  *)
(* phase while a live destination is not committed.                        *)
(***************************************************************************)
Phase(n) ==
    IF txpc[n] # "run" THEN txpc[n]
    ELSE IF \E q \in dests[n] \ staged[n] : ~torn[q] THEN "stage"
    ELSE IF \E q \in staged[n] \ committed[n] : ~torn[q] THEN "commit"
    ELSE "done"

\* node->sender of the nodes of transaction n
Sender(n) == nodes[n][CHOOSE q \in Queues : TRUE].sender

\* The peer that sends transaction n: its own, or one whose earlier
\* transaction is over.  The transactions of one peer follow one another and
\* concurrent senders have distinct tags: no transaction under way has the tag.
SenderTags(n) ==
    { s \in { n } \cup { Sender(m) : m \in { k \in Senders : k < n /\ Phase(k) = "done" } } :
        \A m \in Senders \ { n } : Phase(m) \notin { "new", "done" } => Sender(m) # s }

\* the transaction initialises its nodes with the sender tag s before its first step
TxNodes(n, s) ==
    IF txpc[n] = "new"
    THEN [nodes EXCEPT ![n] = [q \in Queues |-> bus1_queue_node_init(NodeType(n), s)]]
    ELSE nodes

\* the timestamps a transaction passes to stage: none, or its running commit timestamp
Hints(n) == { 0, IF maxSeen[n] = 0 THEN 0 ELSE maxSeen[n] + 1 }

\* stage phase on destination q: tick, then stage
TxStage(n, q, D, hint, s) ==
    /\ \/ txpc[n] = "new" /\ Cardinality(D) > 1 /\ s \in SenderTags(n)
       \/ Phase(n) = "stage" /\ D = dests[n] /\ s = Sender(n)
    /\ hint \in Hints(n)
    /\ q \in D \ staged[n]
    /\ ~torn[q]
    /\ LET qs == [QueueOf(q) EXCEPT !.clock = bus1_queue_tick(clock[q])]
           r == bus1_queue_stage(qs, TxNodes(n, s), q, n, hint)
       IN  /\ QueueApply(q, r)
           /\ maxSeen' = [maxSeen EXCEPT ![n] = Max(@, r.ret)]
    /\ dests' = [dests EXCEPT ![n] = D]
    /\ staged' = [staged EXCEPT ![n] = @ \cup { q }]
    /\ txpc' = [txpc EXCEPT ![n] = "run"]
    /\ UNCHANGED << committed, wake, flushed, torn, dequeued >>

\* select commit
commit_ts(n) == maxSeen[n] + 1

\* commit phase on destination q
TxCommit(n, q) ==
    /\ Phase(n) = "commit"
    /\ q \in staged[n] \ committed[n]
    /\ ~torn[q]
    /\ LET r == bus1_queue_commit_staged(QueueOf(q), nodes, q, n, commit_ts(n))
       IN  /\ QueueApply(q, r)
           /\ wake' = r.ret
    /\ committed' = [committed EXCEPT ![n] = @ \cup { q }]
    /\ UNCHANGED << txpc, dests, staged, maxSeen, flushed, torn, dequeued >>

\* single-destination fast path
TxUnicast(n, q, s) ==
    /\ txpc[n] = "new"
    /\ s \in SenderTags(n)
    /\ ~torn[q]
    /\ dests' = [dests EXCEPT ![n] = { q }]
    /\ LET r == bus1_queue_commit_unstaged(QueueOf(q), TxNodes(n, s), q, n)
       IN  /\ QueueApply(q, r)
           /\ wake' = r.ret
    /\ committed' = [committed EXCEPT ![n] = { q }]
    /\ txpc' = [txpc EXCEPT ![n] = "done"]
    /\ UNCHANGED << staged, maxSeen, flushed, torn, dequeued >>

\* the transaction aborts after it has staged on some destinations: it
\* removes its staging entries, one destination at a time
TxRemove(n, q) ==
    /\ Phase(n) \in { "stage", "abort" }
    /\ q \in staged[n]
    /\ LET r == bus1_queue_remove(QueueOf(q), nodes, q, n)
       IN  /\ QueueApply(q, r)
           /\ wake' = r.ret
    /\ staged' = [staged EXCEPT ![n] = @ \ { q }]
    /\ txpc' = [txpc EXCEPT ![n] = IF staged'[n] = {} THEN "done" ELSE "abort"]
    /\ UNCHANGED << dests, committed, maxSeen, flushed, torn, dequeued >>

(***************************************************************************)
(* The reader of queue q dequeues: it peeks and removes the node it got.   *)
(***************************************************************************)
Dequeue(q) ==
    LET p == bus1_queue_peek(QueueOf(q), nodes, q)
    IN  /\ ~torn[q]
        /\ p.node # NULL
        /\ LET r == bus1_queue_remove(QueueOf(q), nodes, q, p.node)
           IN  /\ QueueApply(q, r)
               /\ wake' = r.ret
        /\ dequeued' = [dequeued EXCEPT ![q] = Append(@, p.node)]
        /\ UNCHANGED << txpc, dests, staged, committed, maxSeen, flushed, torn >>

(***************************************************************************)
(* Teardown of the peer of queue q flushes what is queued; nobody uses the *)
(* queue of a peer that is gone.                                           *)
(***************************************************************************)
Flush(q) ==
    /\ ~torn[q]
    /\ torn' = [torn EXCEPT ![q] = TRUE]
    /\ LET r == bus1_queue_flush(QueueOf(q), nodes, q)
       IN  /\ QueueApply(q, r)
           /\ flushed' = [flushed EXCEPT ![q] = @ \cup r.list]
    /\ UNCHANGED << txpc, dests, staged, committed, maxSeen, wake, dequeued >>

\* the destinations and the sender tag a step of transaction n can have
StageDests(n) ==
    IF txpc[n] = "new" THEN { D \in SUBSET Queues : Cardinality(D) > 1 } ELSE { dests[n] }
StageTags(n) == IF txpc[n] = "new" THEN SenderTags(n) ELSE { Sender(n) }

TxStep ==
    \/ \E n \in Senders, q \in Queues :
           \E D \in StageDests(n), hint \in Hints(n), s \in StageTags(n) :
               TxStage(n, q, D, hint, s)
    \/ \E n \in Senders, q \in Queues : TxCommit(n, q)
    \/ \E n \in Senders, q \in Queues : \E s \in StageTags(n) : TxUnicast(n, q, s)
    \/ \E n \in Senders, q \in Queues : TxRemove(n, q)

QueueStep ==
    \/ TxStep
    \/ \E q \in Queues : Dequeue(q)
    \/ \E q \in Queues : Flush(q)

QueueNext == QueueStep /\ UNCHANGED << activeVars, began >>

(***************************************************************************)
(* The transactions and the teardown of peers, with the record of what was *)
(* committed when a transaction began.  The readers are left out: no       *)
(* timestamp depends on what was dequeued.                                 *)
(***************************************************************************)
CommitsDone == { << m, q >> \in Senders \X Queues : q \in committed[m] }

CausalNext ==
    /\ \/ TxStep
       \/ \E q \in Queues : Flush(q)
    /\ began' = [n \in Senders |->
                   IF txpc[n] = "new" /\ txpc'[n] # "new" THEN CommitsDone ELSE began[n]]
    /\ UNCHANGED activeVars

(***************************************************************************)
(* The order of the nodes of queue q, written out: by timestamp, then by   *)
(* sender tag.                                                             *)
(***************************************************************************)
Queued(q) == Elements(messages[q])
Timestamp(q, n) == nodes[n][q].timestamp
Before(q, a, b) ==
    \/ Timestamp(q, a) < Timestamp(q, b)
    \/ Timestamp(q, a) = Timestamp(q, b) /\ Sender(a) < Sender(b)
IsMin(q, m) == m \in Queued(q) /\ \A o \in Queued(q) \ { m } : Before(q, m, o)
Committed(q, n) == Timestamp(q, n) % 2 = 0
Position(q, n) == CHOOSE i \in 1 .. Len(dequeued[q]) : dequeued[q][i] = n
Multicast(n) == Cardinality(dests[n]) >= 2

(***************************************************************************)
(* C8.  Front-cache invariant: after every queue operation front is the    *)
(* minimum node of messages by (timestamp, sender) if there is one and its *)
(* timestamp is even, and NULL otherwise.  Hence a node returned by peek   *)
(* has an even timestamp, is the minimum of the tree, and no staging node  *)
(* with a smaller timestamp is queued.                                     *)
(***************************************************************************)
C8_FrontIsReadyMinimum ==
    \A q \in Queues :
        /\ IF \E m \in Queued(q) : IsMin(q, m) /\ Committed(q, m)
           THEN front[q] # NULL /\ IsMin(q, front[q])
           ELSE front[q] = NULL
        /\ Queued(q) # {} => \E m \in Queued(q) : IsMin(q, m)
        /\ LET p == bus1_queue_peek(QueueOf(q), nodes, q).node
           IN  p # NULL =>
                   /\ Committed(q, p)
                   /\ IsMin(q, p)
                   /\ \A o \in Queued(q) :
                          ~Committed(q, o) => Timestamp(q, o) >= Timestamp(q, p)

\* a committed node waits behind a staging entry on one queue while the other
\* queue, flushed, is empty
C8_Witness ==
    \E q, e \in Queues :
        /\ front[q] = NULL
        /\ \E m, o \in Queued(q) : IsMin(q, m) /\ ~Committed(q, m) /\ Committed(q, o)
        /\ torn[e] /\ flushed[e] # {} /\ front[e] = NULL

(***************************************************************************)
(* C9.  On every queue the nodes were dequeued in strictly increasing      *)
(* (timestamp, sender), and no committed node is queued with a key below   *)
(* that of a node already dequeued from the queue.                         *)
(***************************************************************************)
C9_DequeueOrderIncreasing ==
    \A q \in Queues :
        /\ \A i, j \in 1 .. Len(dequeued[q]) :
               i < j => Before(q, dequeued[q][i], dequeued[q][j])
        /\ \A m \in Queued(q) : Committed(q, m) =>
               \A i \in 1 .. Len(dequeued[q]) : Before(q, dequeued[q][i], m)

\* two multicasts were dequeued from one queue; on the other the first of
\* them was dequeued before the second one was committed there
C9_Witness ==
    \E q, e \in Queues, a, b \in Senders :
        /\ Multicast(a) /\ Multicast(b)
        /\ dequeued[q] = << a, b >>
        /\ dequeued[e] = << a >>
        /\ b \in Queued(e) /\ Committed(e, b)

(***************************************************************************)
(* C10.  Two transactions that share two queues are dequeued in the same   *)
(* relative order from both; if they have the same commit timestamp the    *)
(* one with the lower sender tag comes first on both.                      *)
(***************************************************************************)
C10_SameOrderOnSharedQueues ==
    \A a, b \in Senders : \A q, e \in Queues :
        ( /\ a # b /\ q # e
          /\ { q, e } \subseteq dests[a] \cap dests[b]
          /\ { a, b } \subseteq Elements(dequeued[q]) \cap Elements(dequeued[e]) )
        => /\ Position(q, a) < Position(q, b) <=> Position(e, a) < Position(e, b)
           /\ Timestamp(q, a) = Timestamp(q, b) =>
                  (Position(q, a) < Position(q, b) <=> Sender(a) < Sender(b))

\* both were dequeued from both queues, with the same commit timestamp, and
\* the one that comes first was the last to commit
C10_Witness ==
    \E a, b \in Senders : \E q, e \in Queues :
        /\ q # e /\ a # b
        /\ dequeued[q] = << a, b >> /\ dequeued[e] = << a, b >>
        /\ Timestamp(q, a) = Timestamp(q, b)
        /\ Timestamp(e, a) = Timestamp(e, b)

(***************************************************************************)
(* C11.  Once the commit phase of a multicast transaction has completed,   *)
(* the node it committed on each destination has an even timestamp, the    *)
(* same commit_ts on every destination; the node is held by the queue      *)
(* until the reader dequeues it or the queue is flushed.                   *)
(***************************************************************************)
CommitCompleted(n) == Multicast(n) /\ Phase(n) = "done" /\ committed[n] # {}

C11_SameCommitTimestampEverywhere ==
    \A n \in Senders : CommitCompleted(n) =>
        \A q \in committed[n] :
            /\ Committed(q, n)
            /\ Timestamp(q, n) = commit_ts(n)
            /\ \/ n \in Queued(q)
               \/ n \in Elements(dequeued[q])
               \/ n \in flushed[q]

\* a multicast has committed on both queues and is queued on both, one of
\* them fast-forwarded to the staging timestamp seen on the other
C11_Witness ==
    \E n \in Senders, q, e \in Queues :
        /\ CommitCompleted(n) /\ committed[n] = Queues
        /\ n \in Queued(q) /\ n \in Queued(e)
        /\ clock[q] > clock[e]
        /\ Timestamp(e, n) = clock[e]

(***************************************************************************)
(* C12.  No two nodes queued on the same queue at the same time have the   *)
(* same (timestamp, sender), be they staging or committed: concurrent      *)
(* senders differ in the tag, the nodes of one sender in the timestamp.    *)
(***************************************************************************)
C12_QueuedKeysUnique ==
    \A q \in Queues : \A a, b \in Queued(q) :
        a # b => ~( Timestamp(q, a) = Timestamp(q, b) /\ Sender(a) = Sender(b) )

\* two transactions that took the same commit timestamp from different
\* destination clocks are queued together, one committed, one staging on
\* the other queue
C12_Witness ==
    \E q, e \in Queues, a, b \in Senders :
        /\ a # b /\ q # e
        /\ { a, b } \subseteq Queued(q) /\ { a, b } \subseteq Queued(e)
        /\ Committed(q, a) /\ Committed(q, b)
        /\ Timestamp(q, a) = Timestamp(q, b)
        /\ Timestamp(q, a) = clock[q] /\ Timestamp(q, a) = clock[e]

(***************************************************************************)
(* C13.  Causal order: if transaction b took its first queue step after    *)
(* transaction a had completed its commit on queue q, then on q the key b  *)
(* stages with, and the key it commits with, are strictly greater than the *)
(* key of a.                                                               *)
(***************************************************************************)
C13_QueuedAfterCommitOrdersAfter ==
    \A b \in Senders : \A c \in began[b] :
        LET a == c[1]
            q == c[2]
        IN  q \in staged[b] \cup committed[b] =>
                /\ Timestamp(q, a) < Timestamp(q, b)
                /\ Before(q, a, b)

\* b began after the multicast a had committed on q, and has committed there
\* itself; b has the lower sender tag
C13_Witness ==
    \E a, b \in Senders, q \in Queues :
        /\ << a, q >> \in began[b]
        /\ Multicast(a) /\ Multicast(b)
        /\ q \in committed[b]
        /\ Sender(b) < Sender(a)

(***************************************************************************)
(* C14.  The clock of a queue never decreases.  commit_unstaged ticks it   *)
(* by exactly 2; stage ticks it and may fast-forward it further;           *)
(* commit_staged syncs it: to the greater of the clock and the commit      *)
(* timestamp.  Nothing else changes a clock.                               *)
(***************************************************************************)
C14_ClockNeverDecreases ==
    [][ \A q \in Queues :
            /\ clock'[q] >= clock[q]
            /\ \A n \in Senders :
                   /\ (q \in staged'[n] \ staged[n]) =>
                          /\ clock'[q] >= clock[q] + 2
                          /\ nodes'[n][q].timestamp = clock'[q] - 1
                   /\ (q \in committed'[n] \ committed[n] /\ q \in staged[n]) =>
                          /\ clock'[q] >= nodes'[n][q].timestamp
                          /\ clock'[q] \in { clock[q], nodes'[n][q].timestamp }
                   /\ (q \in committed'[n] \ committed[n] /\ q \notin staged[n]) =>
                          /\ clock'[q] = clock[q] + 2
                          /\ nodes'[n][q].timestamp = clock'[q]
            /\ (\A n \in Senders : /\ q \notin staged'[n] \ staged[n]
                                   /\ q \notin committed'[n] \ committed[n])
                   => clock'[q] = clock[q]
      ]_vars

\* a commit has fast-forwarded the clock of a queue only one transaction has
\* touched: it is more than one tick ahead
C14_Witness ==
    \E q \in Queues, n \in Senders :
        /\ q \in committed[n] /\ Multicast(n)
        /\ \A m \in Senders \ { n } : q \notin staged[m] \cup committed[m]
        /\ clock[q] = Timestamp(q, n)
        /\ clock[q] > 2

(***************************************************************************)
(* The progress the transactions and the readers are assumed to make: a    *)
(* transaction that has begun keeps going (it stages on its remaining      *)
(* destinations, commits on them, or removes what it staged), and the      *)
(* reader of a queue dequeues whenever a node is ready.  Nothing makes a   *)
(* transaction begin, and nothing makes a peer go away.                    *)
(***************************************************************************)
TxProgress(n) ==
    /\ \E q \in Queues :
           \/ \E hint \in Hints(n) : TxStage(n, q, dests[n], hint, Sender(n))
           \/ TxCommit(n, q)
           \/ TxRemove(n, q)
    /\ UNCHANGED << activeVars, began >>

ReaderProgress(q) == Dequeue(q) /\ UNCHANGED << activeVars, began >>

QueueLiveFairness ==
    /\ \A n \in Senders : WF_vars(TxProgress(n))
    /\ \A q \in Queues : WF_vars(ReaderProgress(q))

(***************************************************************************)
(* C15.  Eventual visibility: while transactions that staged go on to      *)
(* commit or remove and the reader keeps dequeuing, every committed node   *)
(* that is queued eventually becomes the front of its queue, unless the    *)
(* peer goes away and its queue is flushed first.  In particular no        *)
(* reachable state leaves a committed node behind entries that never       *)
(* resolve: under the fairness above such a state would stutter for ever.  *)
(***************************************************************************)
C15_CommittedEventuallyFront ==
    \A n \in Senders, q \in Queues :
        (n \in Queued(q) /\ Committed(q, n)) ~> (front[q] = n \/ torn[q])

\* a committed node waits behind the staging entry of another transaction
C15_Witness ==
    \E q \in Queues, n \in Senders, m \in Senders :
        /\ n \in Queued(q) /\ Committed(q, n)
        /\ m \in Queued(q) /\ ~Committed(q, m)
        /\ Before(q, m, n)
        /\ front[q] = NULL
        /\ ~torn[q]

(***************************************************************************)
(* C16.  Front stability: while a node is the ready front of a queue, a    *)
(* step changes front only by taking that node off the queue, which only   *)
(* the reader's remove and flush do; so no stage, commit_staged or         *)
(* commit_unstaged of another node changes front or makes the queue        *)
(* non-readable.  A node such a step links or relinks lies after the       *)
(* ready front in the tree.                                                *)
(***************************************************************************)
C16_FrontStable ==
    [][ \A q \in Queues :
            bus1_queue_is_readable(front[q]) =>
                /\ front'[q] # front[q] =>
                       /\ front[q] \notin Elements(messages'[q])
                       /\ dequeued'[q] # dequeued[q] \/ (torn'[q] /\ ~torn[q])
                /\ \A n \in Elements(messages'[q]) \ { front[q] } :
                       (n \notin Queued(q) \/ nodes'[n][q] # nodes[n][q]) =>
                           /\ front'[q] = front[q]
                           /\ \E i, j \in 1 .. Len(messages'[q]) :
                                  /\ i < j
                                  /\ messages'[q][i] = front[q]
                                  /\ messages'[q][j] = n
                           /\ nodes'[n][q].timestamp > Timestamp(q, front[q])
      ]_vars

\* a queue with a ready front behind which a node of a lower sender tag has
\* been staged, and a second queue on which that node was committed behind
\* the same front
C16_Witness ==
    \E q \in Queues, e \in Queues, f \in Senders, n \in Senders :
        /\ q # e
        /\ front[q] = f /\ front[e] = f
        /\ n \in Queued(q) /\ ~Committed(q, n)
        /\ n \in Queued(e) /\ Committed(e, n) /\ e \in committed[n]
        /\ Sender(n) < Sender(f)

(***************************************************************************)
(* C21.  The commit timestamp a transaction selects is even and greater    *)
(* than the staging timestamp its node has on every destination.  On every *)
(* destination the timestamp of the node never goes down: it is set once   *)
(* to an odd staging value and once more, from there, to the even and      *)
(* greater commit timestamp; the type of the node never changes.           *)
(***************************************************************************)
CommitSelected(n) == Multicast(n) /\ (Phase(n) = "commit" \/ committed[n] # {})

C21_CommitAboveStaging ==
    /\ [](\A n \in Senders : CommitSelected(n) =>
              /\ commit_ts(n) % 2 = 0
              /\ \A q \in staged[n] \ committed[n] :
                     /\ bus1_queue_node_is_staging(nodes[n][q])
                     /\ Timestamp(q, n) < commit_ts(n)
              /\ \A q \in committed[n] : Timestamp(q, n) = commit_ts(n))
    /\ [][ \A n \in Senders, q \in Queues :
               /\ bus1_queue_node_get_type(nodes'[n][q]) = bus1_queue_node_get_type(nodes[n][q])
               /\ Timestamp(q, n)' >= Timestamp(q, n)
               /\ (Timestamp(q, n)' # Timestamp(q, n) /\ Multicast(n)') =>
                      IF Timestamp(q, n) = 0
                      THEN Timestamp(q, n)' % 2 = 1
                      ELSE /\ Timestamp(q, n) % 2 = 1
                           /\ Timestamp(q, n)' % 2 = 0
                           /\ Timestamp(q, n)' = commit_ts(n)
         ]_vars

\* a node committed on one destination at a timestamp that is more than one
\* above its staging timestamp there, and still staging on another
C21_Witness ==
    \E n \in Senders, q \in Queues, e \in Queues :
        /\ CommitSelected(n)
        /\ q \in committed[n] /\ e \in staged[n] \ committed[n]
        /\ Timestamp(e, n) + 1 < commit_ts(n)
        /\ Timestamp(q, n) = commit_ts(n)

(***************************************************************************)
(* C22.  stage then commit_staged: committing a staging node n of a queue  *)
(* at any even timestamp c above its staging timestamp leaves n linked     *)
(* exactly once, at timestamp c and so no longer staging, in the place of  *)
(* the key (c, sender) in the tree, and the clock at c or above.  Stated   *)
(* for every staging node of every reachable queue and every such c up to  *)
(* one tick beyond the clock, and for the commits the transactions make.   *)
(***************************************************************************)
Occurrences(msgs, n) == Cardinality({ i \in 1 .. Len(msgs) : msgs[i] = n })

KeyOrdered(msgs, T, q) ==
    \A i, j \in 1 .. Len(msgs) :
        i < j => \/ T[msgs[i]][q].timestamp < T[msgs[j]][q].timestamp
                 \/ /\ T[msgs[i]][q].timestamp = T[msgs[j]][q].timestamp
                    /\ T[msgs[i]][q].sender <= T[msgs[j]][q].sender

CommittedOnceAt(r, q, n, c) ==
    /\ Occurrences(r.messages, n) = 1
    /\ r.nodes[n][q].timestamp = c
    /\ r.nodes[n][q].sender = nodes[n][q].sender
    /\ ~bus1_queue_node_is_staging(r.nodes[n][q])
    /\ KeyOrdered(r.messages, r.nodes, q)
    /\ Len(r.messages) = Len(messages[q])
    /\ r.clock >= c

C22_StageThenCommit ==
    /\ [](\A q \in Queues : \A n \in Queued(q) :
              bus1_queue_node_is_staging(nodes[n][q]) =>
                  \A c \in Timestamp(q, n) + 1 .. clock[q] + 2 :
                      c % 2 = 0 =>
                          CommittedOnceAt(bus1_queue_commit_staged(QueueOf(q), nodes, q, n, c),
                                          q, n, c))
    /\ [][ \A n \in Senders : \A q \in committed'[n] \ committed[n] :
               q \in staged[n] =>
                   /\ n \in Queued(q) /\ bus1_queue_node_is_staging(nodes[n][q])
                   /\ CommittedOnceAt([ messages |-> messages'[q], nodes |-> nodes',
                                        clock |-> clock'[q] ], q, n, commit_ts(n))
         ]_vars

\* a node committed behind the staging node of another transaction, at a
\* timestamp the clock of the queue was moved up to
C22_Witness ==
    \E q \in Queues, n \in Senders :
        /\ q \in committed[n] /\ Multicast(n)
        /\ Len(messages[q]) >= 2
        /\ messages[q][Len(messages[q])] = n
        /\ \E m \in Queued(q) \ { n } : ~Committed(q, m)
        /\ clock[q] = Timestamp(q, n)
        /\ \E e \in Queues : clock[e] > clock[q]

(***************************************************************************)
(* The steps that call commit_staged and remove on queue q for node n, and *)
(* the state in which the staging node n is all that keeps the committed   *)
(* node m from being the front.                                            *)
(***************************************************************************)
CommitStagedStep(n, q) == q \in committed'[n] \ committed[n] /\ q \in staged[n]

AbortRemoveStep(n, q) == q \in staged[n] \ staged'[n]

ReaderRemoveStep(q) == dequeued'[q] # dequeued[q]

BecameReadable(q) ==
    front[q] = NULL /\ front'[q] # NULL

Blocks(q, n, m) ==
    /\ Len(messages[q]) >= 2
    /\ messages[q][1] = n /\ bus1_queue_node_is_staging(nodes[n][q])
    /\ messages[q][2] = m /\ ~bus1_queue_node_is_staging(nodes[m][q])

\* what commit_staged and remove return, and remove of a node not queued
WakeIffBecameReadable ==
    /\ [](\A q \in Queues, n \in Senders :
              ~bus1_queue_node_is_queued(messages[q], n) =>
                  LET r == bus1_queue_remove(QueueOf(q), nodes, q, n)
                  IN  /\ r.ret = FALSE
                      /\ r.messages = messages[q] /\ r.front = front[q]
                      /\ r.clock = clock[q] /\ r.nodes = nodes)
    /\ [][ \A q \in Queues :
               /\ ((\E n \in Senders : CommitStagedStep(n, q) \/ AbortRemoveStep(n, q))
                      \/ ReaderRemoveStep(q)) =>
                      (wake' <=> BecameReadable(q))
               /\ \A n \in Senders :
                      (AbortRemoveStep(n, q) /\ n \notin Queued(q)) =>
                          /\ ~wake'
                          /\ messages'[q] = messages[q] /\ front'[q] = front[q]
                          /\ clock'[q] = clock[q]
         ]_vars

(***************************************************************************)
(* C23.  As stated: commit_staged and remove return true exactly when the  *)
(* queue was not readable before and is readable after; remove of a node   *)
(* that is not queued returns false and changes nothing; and removing or   *)
(* committing the staging entry that blocked a committed node makes that   *)
(* node the front and returns true.  A commit below the key of the blocked *)
(* node refutes the last part: the node just committed is the front.       *)
(***************************************************************************)
C23_WakeSignal ==
    /\ WakeIffBecameReadable
    /\ [][ \A q \in Queues, n \in Senders, m \in Senders :
               (Blocks(q, n, m) /\ (CommitStagedStep(n, q) \/ AbortRemoveStep(n, q))) =>
                   /\ front'[q] = m
                   /\ wake'
         ]_vars

(***************************************************************************)
(* C23, amended.  The same, but: removing the staging entry that blocked a *)
(* committed node makes that node the front; committing it makes the queue *)
(* readable with the lower of the two keys at the front, the blocked node  *)
(* if the commit key is above its key and the node just committed if it is *)
(* below.  Both return true.                                               *)
(***************************************************************************)
C23_WakeSignalFrontByKey ==
    /\ WakeIffBecameReadable
    /\ [][ \A q \in Queues, n \in Senders, m \in Senders :
               Blocks(q, n, m) =>
                   /\ AbortRemoveStep(n, q) => (front'[q] = m /\ wake')
                   /\ CommitStagedStep(n, q) =>
                          /\ wake'
                          /\ front'[q] = IF \/ Timestamp(q, n)' < Timestamp(q, m)
                                            \/ /\ Timestamp(q, n)' = Timestamp(q, m)
                                               /\ Sender(n) < Sender(m)
                                         THEN n ELSE m
         ]_vars

\* the commit of a multicast on its first destination has made the queue
\* readable with its own node at the front, ahead of the committed node it
\* had blocked
C23_Witness ==
    \E q \in Queues, e \in Queues, n \in Senders, m \in Senders :
        /\ wake
        /\ front[q] = n /\ Len(messages[q]) >= 2 /\ messages[q][2] = m
        /\ Multicast(n) /\ committed[n] = { q } /\ e \in staged[n] \ { q }
        /\ dests[m] = { q } /\ Committed(q, m)
        /\ Timestamp(q, n) < Timestamp(q, m)
        /\ \A x \in Queues : dequeued[x] = << >>

(***************************************************************************)
(* C24.  The clock of every queue is even in every state; a tick would     *)
(* raise it by 2 to an even value again.  The timestamps sync is called    *)
(* with (the hint of a stage, the commit timestamp) are even, every        *)
(* staging timestamp handed out is odd and every commit timestamp even.    *)
(***************************************************************************)
C24_ClockEven ==
    /\ \A q \in Queues :
           /\ clock[q] % 2 = 0
           /\ bus1_queue_tick(clock[q]) = clock[q] + 2
           /\ bus1_queue_tick(clock[q]) % 2 = 0
    /\ \A n \in Senders :
           /\ \A hint \in Hints(n) :
                  /\ hint % 2 = 0
                  /\ \A q \in Queues : bus1_queue_sync(clock[q], hint) % 2 = 0
           /\ CommitSelected(n) => commit_ts(n) % 2 = 0
           /\ \A q \in staged[n] \ committed[n] : Timestamp(q, n) % 2 = 1
           /\ \A q \in committed[n] : Timestamp(q, n) % 2 = 0 /\ Timestamp(q, n) > 0
           /\ maxSeen[n] # 0 => maxSeen[n] % 2 = 1

\* a stage whose hint moved the clock of a queue nobody else has touched,
\* and a commit that moved the clock of the other queue
C24_Witness ==
    \E n \in Senders, q \in Queues, e \in Queues :
        /\ q \in staged[n] \ committed[n]
        /\ \A m \in Senders \ { n } : q \notin staged[m] \cup committed[m]
        /\ clock[q] >= 4 /\ Timestamp(q, n) = clock[q] - 1
        /\ e \in committed[n] /\ clock[e] = Timestamp(e, n)

(***************************************************************************)
(* C25.  flush moves every queued node, staging or committed, onto the     *)
(* list of the caller: after it the tree is empty, front is NULL, no node  *)
(* is queued, the list holds exactly the nodes that were queued, and peek  *)
(* returns no node and no continuation.  It stays so on a flushed queue.   *)
(***************************************************************************)
FlushStep(q) == torn'[q] /\ ~torn[q]

Emptied(msgs, f, T, q) ==
    /\ msgs = << >>
    /\ f = NULL
    /\ ~bus1_queue_is_readable(f)
    /\ \A n \in Senders : ~bus1_queue_node_is_queued(msgs, n)
    /\ bus1_queue_peek([ clock |-> 0, messages |-> msgs, front |-> f ], T, q)
           = [ node |-> NULL, continue |-> FALSE ]

C25_FlushEmptiesQueue ==
    /\ [](\A q \in Queues : torn[q] => Emptied(messages[q], front[q], nodes, q))
    /\ [][ \A q \in Queues : FlushStep(q) =>
               /\ flushed'[q] = Queued(q)
               /\ Cardinality(flushed'[q]) = Len(messages[q])
               /\ Emptied(messages'[q], front'[q], nodes', q)
               /\ clock'[q] = clock[q] /\ nodes' = nodes
         ]_vars

\* a queue was flushed that held a staging node and a committed node
C25_Witness ==
    \E q \in Queues, a \in Senders, b \in Senders :
        /\ torn[q]
        /\ { a, b } \subseteq flushed[q]
        /\ ~Committed(q, a) /\ Committed(q, b)
        /\ Before(q, a, b)

(***************************************************************************)
(* The specifications.                                                     *)
(***************************************************************************)
Init == ActiveInit /\ QueueInit

ActiveSpec == Init /\ [][ActiveNext]_vars

ActiveLiveSpec == Init /\ [][ActiveLiveNext]_vars /\ ActiveLiveFairness

QueueSpec == Init /\ [][QueueNext]_vars

DeviceSpec == Init /\ [][DeviceNext]_vars

CausalSpec == Init /\ [][CausalNext]_vars

QueueLiveSpec == Init /\ [][QueueNext]_vars /\ QueueLiveFairness

=============================================================================
